---- MODULE Spec2Model ----
(***************************************************************************)
(* Project ORBITA backend (src/backend/server.py): the module-level        *)
(* satellite catalog, its startup load, and the request handlers that      *)
(* propagate satellites (list, position, orbital prediction, passes,       *)
(* real-time tracking), and the handlers that report on the catalog or     *)
(* return fixed data (health, dashboard, imagery, the mock endpoints).     *)
(*                                                                         *)
(* Time is counted in ticks of half a second, so that the whole-second     *)
(* rounding of Time.utc_iso() is visible.  Angles and altitudes are        *)
(* integers (degrees, km).                                                 *)
(***************************************************************************)
EXTENDS Integers, Sequences, FiniteSets, TLC

VARIABLES satellites, ts, pc, now, last, prev, environ

vars == <<satellites, ts, pc, now, last, prev, environ>>

(***************************************************************************)
(* Bounds of the model.                                                    *)
(***************************************************************************)
MaxNow == 1
MaxHours == 1
MaxDays == 1
MaxSats == 21
\* resolution of the clock
TicksPerSecond == 2

(***************************************************************************)
(* Program constants.                                                      *)
(***************************************************************************)
PointCount == 51
PathSteps == 50
PassesPerDay == 4
PassSpacingHours == 6
ListLimit == 20
TrackingLimit == 15

TicksPerHour == 3600 * TicksPerSecond

(***************************************************************************)
(* The catalog.  A satellite is its TLE record: a display name, a catalog  *)
(* number, and the orbit it describes.  `malformed` and `decayAt` fix the  *)
(* instants at which propagation fails: always for a malformed element     *)
(* set, from decayAt on for an orbit that decays (-1: never).              *)
(***************************************************************************)
SatISS ==
    [name |-> "ISS (ZARYA)", satnum |-> 25544, inclination |-> 52,
     elevation |-> 420, latitude |-> 10, longitude |-> 20,
     speed |-> 8, period |-> 93,
     malformed |-> FALSE, decayAt |-> -1]

SatDecaying ==
    [name |-> "STARLINK-1", satnum |-> 44713, inclination |-> 53,
     elevation |-> 350, latitude |-> 40, longitude |-> -70,
     speed |-> 8, period |-> 91,
     malformed |-> FALSE, decayAt |-> 3]

SatMalformed ==
    [name |-> "DEBRIS", satnum |-> 99999, inclination |-> 0,
     elevation |-> 0, latitude |-> 0, longitude |-> 0,
     speed |-> 0, period |-> 0,
     malformed |-> TRUE, decayAt |-> -1]

\* a second record under the display name of SatISS
SatISSTwin ==
    [name |-> "ISS (ZARYA)", satnum |-> 49044, inclination |-> 52,
     elevation |-> 415, latitude |-> -20, longitude |-> 100,
     speed |-> 8, period |-> 93,
     malformed |-> FALSE, decayAt |-> -1]

\* a stations file of MaxSats element sets, the second unusable
SatStations ==
    [i \in 1..MaxSats |->
        IF i = 2 THEN SatMalformed
        ELSE [SatISS EXCEPT !.satnum = 25544 + i, !.elevation = 400 + i]]

\* what load.tle_file(stations_url) may return
Catalogs ==
    { <<>>,
      SatStations,
      <<SatISS>>,
      <<SatISS, SatDecaying, SatMalformed>>,
      <<SatMalformed, SatDecaying>>,
      <<SatISSTwin, SatISS>> }

NoneValue == [kind |-> "None", list |-> <<>>]
EmptyDict == [kind |-> "dict", list |-> <<>>]
ListOf(c) == [kind |-> "list", list |-> c]

\* Python truth value of the global `satellites`
Truthy(s) == s.kind = "list" /\ Len(s.list) > 0

(***************************************************************************)
(* Library functions the handlers call.                                    *)
(***************************************************************************)
\* str(hash(sat.name))
Hash(name) ==
    CASE name = "ISS (ZARYA)" -> "h1"
      [] name = "STARLINK-1" -> "h2"
      [] name = "DEBRIS" -> "h3"
      [] OTHER -> "h0"

\* str.lower()
Lower(s) ==
    CASE s = "ISS (ZARYA)" -> "iss (zarya)"
      [] s = "STARLINK-1" -> "starlink-1"
      [] s = "DEBRIS" -> "debris"
      [] s = "HUBBLE" -> "hubble"
      [] OTHER -> s

\* sat.at(t) raises
PropagationError(sat, t) ==
    sat.malformed \/ (sat.decayAt >= 0 /\ t >= sat.decayAt)

\* wgs84.subpoint(sat.at(t)): the ground track drifts west as the Earth turns
Subpoint(sat, t) ==
    [latitude |-> sat.latitude,
     longitude |-> ((sat.longitude + 180 - 15 * (t \div TicksPerHour)) % 360) - 180,
     elevation |-> sat.elevation]

\* Time.utc_iso(): the instant rounded to the whole second (half up)
UtcIso(t) == (2 * t + TicksPerSecond) \div (2 * TicksPerSecond)

AfricaCoverage(sp) ==
    /\ -35 <= sp.latitude /\ sp.latitude <= 37
    /\ -20 <= sp.longitude /\ sp.longitude <= 55

HttpError(status, detail) == [status |-> status, detail |-> detail]

\* mutant: the loop without its break, the last match wins
FindByIdLast(list, id) ==
    LET hit == {i \in 1..Len(list) : Hash(list[i].name) = id}
    IN  IF hit = {} THEN 0 ELSE CHOOSE i \in hit : \A j \in hit : i >= j

\* index of the first satellite whose name hashes to id, 0 when there is none
FindById(list, id) ==
    LET hit == {i \in 1..Len(list) : Hash(list[i].name) = id}
    IN  IF hit = {} THEN 0 ELSE CHOOSE i \in hit : \A j \in hit : i <= j

\* mutant: the names compared as they are
FindByNameExact(list, name) ==
    LET hit == {i \in 1..Len(list) : list[i].name = name}
    IN  IF hit = {} THEN 0 ELSE CHOOSE i \in hit : \A j \in hit : i <= j

\* index of the first satellite with this name ignoring case, 0 when none
FindByName(list, name) ==
    LET hit == {i \in 1..Len(list) : Lower(list[i].name) = Lower(name)}
    IN  IF hit = {} THEN 0 ELSE CHOOSE i \in hit : \A j \in hit : i <= j

Prefix(list, n) == SubSeq(list, 1, IF Len(list) < n THEN Len(list) ELSE n)

(***************************************************************************)
(* GET /api/satellites/list                                                *)
(***************************************************************************)
SatType(name) ==
    IF name = "ISS (ZARYA)" THEN "Space Station" ELSE "Communication"

\* one iteration of the loop: the try body, or the except fallback when
\* ts.now() or sat.at(t) raises
ListEntry(sat) ==
    IF ts = "None" \/ PropagationError(sat, now)
    THEN [id |-> Hash(sat.name), name |-> sat.name, catalog_number |-> sat.satnum,
          type |-> "Satellite", current_altitude |-> 0,
          status |-> "Unknown", coverage |-> "Unknown"]
    ELSE LET sp == Subpoint(sat, now)
         IN  [id |-> Hash(sat.name), name |-> sat.name,
              catalog_number |-> sat.satnum, type |-> SatType(sat.name),
              current_altitude |-> sp.elevation, status |-> "Active",
              coverage |-> IF sp.elevation > 400 THEN "Global" ELSE "Regional"]

\* mutant: the loop over satellites instead of satellites[:20]
ListSatellitesRespUnlimited ==
    IF ~Truthy(satellites)
    THEN [status |-> 200, satellites |-> <<>>,
          message |-> "Satellite data not loaded"]
    ELSE [status |-> 200,
          satellites |-> [i \in 1..Len(satellites.list) |->
                              ListEntry(satellites.list[i])],
          total_count |-> Len(satellites.list)]

ListSatellitesResp ==
    IF ~Truthy(satellites)
    THEN [status |-> 200, satellites |-> <<>>,
          message |-> "Satellite data not loaded"]
    ELSE LET shown == Prefix(satellites.list, ListLimit)
         IN  [status |-> 200,
              satellites |-> [i \in 1..Len(shown) |-> ListEntry(shown[i])],
              total_count |-> Len(satellites.list)]

(***************************************************************************)
(* GET /api/satellites/{satellite_id}/position                             *)
(***************************************************************************)
\* the instants at which the handler propagates: t and t_plus = t + 1 s
PositionInstants(t) == {t, t + TicksPerSecond}

GetSatellitePositionResp(satellite_id) ==
    IF ~Truthy(satellites) \/ ts = "None"
    THEN HttpError(503, "Satellite data not available")
    ELSE LET k == FindById(satellites.list, satellite_id)
         IN  IF k = 0
             \* the 404 is raised inside the try and caught by `except Exception`
             THEN HttpError(500, "Error calculating position")
             ELSE LET sat == satellites.list[k]
                      sp == Subpoint(sat, now)
                  IN  IF \E t \in PositionInstants(now) : PropagationError(sat, t)
                      THEN HttpError(500, "Error calculating position")
                      ELSE [status |-> 200, id |-> satellite_id, name |-> sat.name,
                            latitude |-> sp.latitude, longitude |-> sp.longitude,
                            altitude |-> sp.elevation, velocity |-> sat.speed,
                            orbital_period |-> sat.period,
                            inclination |-> sat.inclination, timestamp |-> now,
                            coverage_area |->
                                IF AfricaCoverage(sp) THEN "Africa" ELSE "Global"]

(***************************************************************************)
(* POST /api/satellites/orbital-prediction                                 *)
(***************************************************************************)
\* mutant: the step computed by integer division, prediction_hours // 50
SampleInstantFloorStep(t0, hours, i) ==
    t0 + i * ((hours \div PathSteps) * TicksPerHour)

\* t0 + timedelta(hours = i * prediction_hours / 50)
SampleInstant(t0, hours, i) == t0 + (i * hours * TicksPerHour) \div PathSteps

OrbitalPoint(sat, t) ==
    LET sp == Subpoint(sat, t)
    IN  [time |-> UtcIso(t), latitude |-> sp.latitude,
         longitude |-> sp.longitude, altitude |-> sp.elevation,
         africa_coverage |-> AfricaCoverage(sp)]

\* mutant: each sample in its own try/except, as in real-time tracking
SamplingNeverAborts(sat, t0, hours) == FALSE

\* sat.at(t) raises at some sample: the exception leaves the loop
SamplingAborts(sat, t0, hours) ==
    \E i \in 0..(PointCount - 1) : PropagationError(sat, SampleInstant(t0, hours, i))

\* the points appended by the loop iterations that do not raise
OrbitalPoints(sat, t0, hours) ==
    LET all == [k \in 1..PointCount |-> SampleInstant(t0, hours, k - 1)]
        good == SelectSeq(all, LAMBDA t : ~PropagationError(sat, t))
    IN  [k \in 1..Len(good) |-> OrbitalPoint(sat, good[k])]

\* sum(1 for p in seq if p["africa_coverage"])
CountAfrica(seq) == Cardinality({k \in 1..Len(seq) : seq[k].africa_coverage})

GetOrbitalPredictionResp(request) ==
    IF ~Truthy(satellites) \/ ts = "None"
    THEN HttpError(503, "Satellite data not available")
    ELSE LET k == FindById(satellites.list, request.satellite_id)
         IN  IF k = 0
             THEN HttpError(500, "Error calculating orbital prediction")
             ELSE LET sat == satellites.list[k]
                      pts == OrbitalPoints(sat, now, request.prediction_hours)
                  IN  IF SamplingAborts(sat, now, request.prediction_hours)
                      THEN HttpError(500, "Error calculating orbital prediction")
                      ELSE [status |-> 200,
                            satellite_id |-> request.satellite_id,
                            prediction_hours |-> request.prediction_hours,
                            orbital_path |-> pts,
                            total_points |-> Len(pts),
                            \* whole percent; the code keeps the fraction
                            africa_coverage_percentage |->
                                (CountAfrica(pts) * 100)
                                    \div Len(pts)]

(***************************************************************************)
(* POST /api/satellites/passes                                             *)
(***************************************************************************)
\* mutant: a record every 2 hours
PassRecordTwoHourly(i, t0) ==
    [time |-> UtcIso(t0 + i * 2 * TicksPerHour),
     altitude |-> 45 + (i % 3) * 15,
     azimuth |-> (i * 60) % 360,
     distance |-> 400 + (i % 10) * 50,
     duration |-> 8 + (i % 3) * 2,
     max_elevation |-> 60 + (i % 2) * 15]

\* one iteration of the loop, i = 0, 1, ...
PassRecord(i, t0) ==
    [time |-> UtcIso(t0 + i * PassSpacingHours * TicksPerHour),
     altitude |-> 45 + (i % 3) * 15,
     azimuth |-> (i * 60) % 360,
     distance |-> 400 + (i % 10) * 50,
     duration |-> 8 + (i % 3) * 2,
     max_elevation |-> 60 + (i % 2) * 15]

\* mutant: the list `passes` kept at module level, growing over requests
PassesAccumulating(days, t0) ==
    (IF last.call.op = "passes" /\ last.resp.status = 200
     THEN last.resp.passes ELSE <<>>)
    \o [k \in 1..(days * PassesPerDay) |-> PassRecord(k - 1, t0)]

\* the loop over range(request.days * 4), empty for days <= 0
Passes(days, t0) ==
    [k \in 1..(days * PassesPerDay) |-> PassRecord(k - 1, t0)]

GetSatellitePassesResp(request) ==
    IF ~Truthy(satellites) \/ ts = "None"
    THEN HttpError(503, "Satellite data not available")
    ELSE LET k == FindByName(satellites.list, request.satellite_name)
         IN  IF k = 0
             THEN HttpError(500, "Error calculating passes")
             ELSE LET passes == Passes(request.days, now)
                  IN  [status |-> 200, passes |-> passes,
                       total_passes |-> Len(passes)]

(***************************************************************************)
(* GET /api/satellites/real-time-tracking                                  *)
(***************************************************************************)
TrackingEntry(sat, t) ==
    LET sp == Subpoint(sat, t)
    IN  [id |-> Hash(sat.name), name |-> sat.name, latitude |-> sp.latitude,
         longitude |-> sp.longitude, altitude |-> sp.elevation,
         status |-> "Active", africa_coverage |-> AfricaCoverage(sp)]

\* the satellites of the first 15 whose iteration does not hit `except: continue`
Tracked(list, t) ==
    SelectSeq(Prefix(list, TrackingLimit), LAMBDA s : ~PropagationError(s, t))

GetRealTimeTrackingResp ==
    IF ~Truthy(satellites) \/ ts = "None"
    THEN HttpError(503, "Satellite data not available")
    ELSE LET ok == Tracked(satellites.list, now)
             data == [k \in 1..Len(ok) |-> TrackingEntry(ok[k], now)]
         IN  [status |-> 200, timestamp |-> now, satellites |-> data,
              count |-> Len(data),
              africa_coverage_count |-> CountAfrica(data)]

(***************************************************************************)
(* GET /api/health and GET /api/analytics/dashboard                        *)
(***************************************************************************)
\* bool(os.environ.get('SENTINEL_API_KEY')): unset and empty are both false
KeyConfigured == environ.SENTINEL_API_KEY \notin {"None", ""}

\* mutant: len(satellites) without `if satellites else 0`
HealthCheckRespUnguarded ==
    IF satellites.kind = "None"
    THEN HttpError(500, "Internal Server Error")
    ELSE [status |-> 200, health |-> "healthy", timestamp |-> now,
          satellites_loaded |-> Len(satellites.list),
          sentinel_hub |-> KeyConfigured,
          version |-> "2.1.0-industrial"]

\* the body's "status" is reported as `health`; `status` is the HTTP status
HealthCheckResp ==
    [status |-> 200, health |-> "healthy", timestamp |-> now,
     satellites_loaded |-> IF Truthy(satellites) THEN Len(satellites.list) ELSE 0,
     sentinel_hub |-> KeyConfigured,
     version |-> "2.1.0-industrial"]

GetDashboardDataResp ==
    [status |-> 200,
     total_satellites_tracked |->
         IF Truthy(satellites) THEN Len(satellites.list) ELSE 0,
     active_monitoring_zones |-> 25,
     industrial_facilities_monitored |-> 25]

(***************************************************************************)
(* GET /api/earth-observation/imagery                                      *)
(***************************************************************************)
GetSatelliteImageryResp(request) ==
    IF ~KeyConfigured
    \* the 503 is raised inside the try and caught by `except Exception`
    THEN HttpError(500, "Error fetching imagery")
    ELSE [status |-> 200, location |-> request.location,
          date |-> IF request.date = "None" THEN [isoformat |-> now]
                   ELSE [isoformat |-> request.date],
          image_type |-> request.image_type,
          image_url |-> environ.SENTINEL_API_KEY]

(***************************************************************************)
(* The endpoints that return fixed data or forward a prompt to the         *)
(* external model: facilities, industrial alerts, monitor, NDVI, active    *)
(* alerts; analyze-image and detect-changes.                               *)
(***************************************************************************)
StaticRoutes ==
    {"/api/industrial/facilities", "/api/industrial/alerts",
     "/api/industrial/monitor", "/api/earth-observation/ndvi",
     "/api/monitoring/alerts"}

AIRoutes == {"/api/ai/analyze-image", "/api/ai/detect-changes"}

\* the external model answers or raises
MockResp(route, modelFails) ==
    IF route \in AIRoutes /\ modelFails
    THEN HttpError(500, "Error analyzing image")
    ELSE [status |-> 200, route |-> route]

(***************************************************************************)
(* Requests the clients send.                                              *)
(***************************************************************************)
ImageryRequests ==
    [location : {"New York"}, date : {"None", "2024-02-01"},
     image_type : {"natural"}]

SatelliteIds == {"h1", "h2", "h3", "h0"}

OrbitalPredictionRequests ==
    [satellite_id : SatelliteIds, prediction_hours : (-1)..MaxHours]

\* min_elevation is not a field of SatellitePassRequest: a client may send
\* it, and the request model drops it
SatellitePassRequests ==
    [satellite_name : {"ISS (ZARYA)", "starlink-1", "HUBBLE"},
     latitude : {41, -90}, longitude : {-74},
     days : (-1)..MaxDays,
     min_elevation : {-90, 90}]

NoRequest == [path |-> "/"]

NoCall ==
    [call |-> [op |-> "none", req |-> NoRequest, now |-> 0,
               catalog |-> NoneValue, ts |-> "None"],
     resp |-> [status |-> 0]]

(***************************************************************************)
(* The state machine.                                                      *)
(***************************************************************************)
Init ==
    /\ satellites = NoneValue
    /\ ts = "None"
    /\ pc = "init"
    /\ now = 0
    /\ last = NoCall
    /\ prev = NoCall
    /\ environ \in [SENTINEL_API_KEY : {"None", "sk-1"}]

\* startup_event, line 57: load.tle_file succeeds
StartupLoad ==
    /\ pc = "init"
    /\ \E c \in Catalogs : satellites' = ListOf(c)
    /\ pc' = "loaded"
    /\ UNCHANGED <<ts, now, last, prev, environ>>

\* startup_event, line 57 raises; line 63: satellites = {}
StartupLoadFails ==
    /\ pc = "init"
    /\ satellites' = EmptyDict
    /\ pc' = "failed"
    /\ UNCHANGED <<ts, now, last, prev, environ>>

\* mutant: the except branch without its line 64
StartupTimescaleOnlyInTry ==
    /\ pc \in {"loaded", "failed"}
    /\ ts' = IF pc = "loaded" THEN "ts" ELSE ts
    /\ pc' = "done"
    /\ UNCHANGED <<satellites, now, last, prev, environ>>

\* startup_event, line 58 or line 64: ts = load.timescale()
StartupTimescale ==
    /\ pc \in {"loaded", "failed"}
    /\ ts' = "ts"
    /\ pc' = "done"
    /\ UNCHANGED <<satellites, now, last, prev, environ>>

\* mutant: startup awaits between its two assignments
EventLoopAlwaysFree == TRUE

\* startup_event has no await: the event loop runs no handler inside it
EventLoopFree == pc \in {"init", "done"}

Tick ==
    /\ now < MaxNow
    /\ now' = now + 1
    /\ UNCHANGED <<satellites, ts, pc, last, prev, environ>>

\* a handler returns: the response is sent.  prev keeps the response to the
\* preceding request when this request repeats it.
Respond(op, req, resp) ==
    /\ last' = [call |-> [op |-> op, req |-> req, now |-> now,
                          catalog |-> satellites, ts |-> ts],
                resp |-> resp]
    /\ prev' = IF last.call.op = op /\ last.call.req = req THEN last ELSE NoCall

ListSatellites ==
    /\ EventLoopFree
    /\ Respond("list", NoRequest, ListSatellitesResp)
    /\ UNCHANGED <<satellites, ts, pc, now, environ>>

GetSatellitePosition ==
    /\ EventLoopFree
    /\ \E id \in SatelliteIds :
           Respond("position", [satellite_id |-> id], GetSatellitePositionResp(id))
    /\ UNCHANGED <<satellites, ts, pc, now, environ>>

GetOrbitalPrediction ==
    /\ EventLoopFree
    /\ \E r \in OrbitalPredictionRequests :
           Respond("orbital", r, GetOrbitalPredictionResp(r))
    /\ UNCHANGED <<satellites, ts, pc, now, environ>>

GetSatellitePasses ==
    /\ EventLoopFree
    /\ \E r \in SatellitePassRequests :
           Respond("passes", r, GetSatellitePassesResp(r))
    /\ UNCHANGED <<satellites, ts, pc, now, environ>>

\* mutant: the except branch removes the failing satellite from the catalog
GetRealTimeTrackingPruning ==
    /\ EventLoopFree
    /\ Respond("tracking", NoRequest, GetRealTimeTrackingResp)
    /\ satellites' = IF Truthy(satellites) /\ ts # "None"
                     THEN ListOf(Tracked(satellites.list, now))
                     ELSE satellites
    /\ UNCHANGED <<ts, pc, now, environ>>

GetRealTimeTracking ==
    /\ EventLoopFree
    /\ Respond("tracking", NoRequest, GetRealTimeTrackingResp)
    /\ UNCHANGED <<satellites, ts, pc, now, environ>>

HealthCheck ==
    /\ EventLoopFree
    /\ Respond("health", NoRequest, HealthCheckResp)
    /\ UNCHANGED <<satellites, ts, pc, now, environ>>

GetDashboardData ==
    /\ EventLoopFree
    /\ Respond("dashboard", NoRequest, GetDashboardDataResp)
    /\ UNCHANGED <<satellites, ts, pc, now, environ>>

GetSatelliteImagery ==
    /\ EventLoopFree
    /\ \E r \in ImageryRequests :
           Respond("imagery", r, GetSatelliteImageryResp(r))
    /\ UNCHANGED <<satellites, ts, pc, now, environ>>

MockEndpoint ==
    /\ EventLoopFree
    /\ \E route \in StaticRoutes \cup AIRoutes, modelFails \in BOOLEAN :
           Respond("mock", [path |-> route], MockResp(route, modelFails))
    /\ UNCHANGED <<satellites, ts, pc, now, environ>>

Next ==
    \/ StartupLoad
    \/ StartupLoadFails
    \/ StartupTimescale
    \/ Tick
    \/ ListSatellites
    \/ GetSatellitePosition
    \/ GetOrbitalPrediction
    \/ GetSatellitePasses
    \/ GetRealTimeTracking
    \/ HealthCheck
    \/ GetDashboardData
    \/ GetSatelliteImagery
    \/ MockEndpoint

Spec == Init /\ [][Next]_vars

\* startup_event is straight-line code run once by the server before any
\* request: each of its statements is executed once the previous one returned
FairSpec ==
    /\ Spec
    /\ WF_vars(StartupLoad \/ StartupLoadFails)
    /\ WF_vars(StartupTimescale)

(***************************************************************************)
(* Properties.                                                             *)
(***************************************************************************)
\* the handler of the last call got past its 'data not available' check
Served(c) == Truthy(c.catalog) /\ c.ts # "None"

\* C1: every orbital-prediction request that is answered returns exactly
\* PointCount points, the first at start = now, the last at
\* start + prediction_hours, with strictly increasing instants.
C1_GroundTrackShape ==
    (last.call.op = "orbital" /\ last.resp.status = 200) =>
        LET path == last.resp.orbital_path
            start == last.call.now
            span == last.call.req.prediction_hours * TicksPerHour
        IN  /\ Len(path) = PointCount
            /\ path[1].time = UtcIso(start)
            /\ path[PointCount].time = UtcIso(start + span)
            /\ \A i \in 1..(PointCount - 1) : path[i].time < path[i + 1].time

\* C2: pass prediction for a catalog satellite that is never above the
\* observer's horizon in the window answers 200 with an empty pass list.
\* An observer whose latitude lies more than the footprint half-angle of a
\* low orbit (under 30 degrees below 1000 km) beyond the orbit's inclination
\* never has the satellite above the horizon.
C2_NoPassesWhenNeverVisible ==
    LET c == last.call
        k == FindByName(c.catalog.list, c.req.satellite_name)
        NeverVisible(sat, lat) ==
            /\ sat.elevation < 1000
            /\ (lat > sat.inclination + 30 \/ -lat > sat.inclination + 30)
    IN  (/\ c.op = "passes"
         /\ Served(c)
         /\ k # 0
         /\ NeverVisible(c.catalog.list[k], c.req.latitude))
        => (last.resp.status = 200 /\ last.resp.passes = <<>>)

\* C3: in a pass list every maximal run of consecutive visible samples is one
\* record: two adjacent samples at or above the minimum elevation are never
\* two records, and a record's peak elevation is at least the elevation of
\* each of its samples.
C3_OnePassPerVisibleRun ==
    (last.call.op = "passes" /\ last.resp.status = 200) =>
        LET p == last.resp.passes
            visible(i) == p[i].altitude >= last.call.req.min_elevation
        IN  /\ \A i \in 1..(Len(p) - 1) : ~(visible(i) /\ visible(i + 1))
            /\ \A i \in 1..Len(p) : p[i].max_elevation >= p[i].altitude

\* C4: pass prediction with a minimum elevation of -90 degrees over a horizon
\* of at least one day returns exactly one pass, which starts at start and
\* lasts the whole horizon.
C4_AlwaysVisibleOnePass ==
    (/\ last.call.op = "passes"
     /\ last.resp.status = 200
     /\ last.call.req.days >= 1
     /\ last.call.req.min_elevation = -90)
    => LET p == last.resp.passes
       IN  /\ Len(p) = 1
           /\ p[1].time = UtcIso(last.call.now)
           /\ p[1].duration * 60 * TicksPerSecond
                  = last.call.req.days * 24 * TicksPerHour

\* C5: pass prediction with a minimum elevation of 90 degrees returns an
\* empty pass list when no sample is exactly at zenith.
C5_ZenithThresholdNoPass ==
    (/\ last.call.op = "passes"
     /\ last.resp.status = 200
     /\ last.call.req.min_elevation = 90)
    => LET p == last.resp.passes
       IN  (\A i \in 1..Len(p) : p[i].altitude # 90 /\ p[i].max_elevation # 90)
           => p = <<>>

\* C6: when the propagation of a satellite fails in an operation that
\* propagates it (list, position, real-time tracking, orbital prediction),
\* the operation reports a failure: it does not answer 200 with a substitute
\* entry or with the satellite left out.
C6_PropagationFailureReported ==
    LET c == last.call
        list == c.catalog.list
        failing ==
            CASE c.op = "list" ->
                   {i \in 1..Len(Prefix(list, ListLimit)) :
                        PropagationError(list[i], c.now)}
              [] c.op = "tracking" ->
                   {i \in 1..Len(Prefix(list, TrackingLimit)) :
                        PropagationError(list[i], c.now)}
              [] c.op = "position" ->
                   {i \in 1..Len(list) :
                        /\ i = FindById(list, c.req.satellite_id)
                        /\ \E t \in PositionInstants(c.now) :
                               PropagationError(list[i], t)}
              [] c.op = "orbital" ->
                   {i \in 1..Len(list) :
                        /\ i = FindById(list, c.req.satellite_id)
                        /\ \E n \in 0..(PointCount - 1) :
                               PropagationError(list[i],
                                   SampleInstant(c.now, c.req.prediction_hours, n))}
              [] OTHER -> {}
    IN  (Served(c) /\ failing # {}) => last.resp.status # 200

\* C7: a propagation failure at any sample instant of an orbital prediction
\* makes the response an error without a path, and a path that is returned
\* is never shorter than PointCount.
C7_SamplingFailureAborts ==
    LET c == last.call
        k == FindById(c.catalog.list, c.req.satellite_id)
    IN  c.op = "orbital" =>
          /\ (/\ Served(c)
              /\ k # 0
              /\ \E n \in 0..(PointCount - 1) :
                     PropagationError(c.catalog.list[k],
                         SampleInstant(c.now, c.req.prediction_hours, n)))
             => (/\ last.resp.status = 500
                 /\ "orbital_path" \notin DOMAIN last.resp)
          /\ "orbital_path" \in DOMAIN last.resp
             => Len(last.resp.orbital_path) = PointCount

\* C7 witness: an orbital prediction whose first sample propagates and a
\* later one fails was answered with an error.
C7_Witness ==
    LET c == last.call
        k == FindById(c.catalog.list, c.req.satellite_id)
    IN  /\ c.op = "orbital"
        /\ Served(c)
        /\ k # 0
        /\ ~PropagationError(c.catalog.list[k], c.now)
        /\ \E n \in 1..(PointCount - 1) :
               PropagationError(c.catalog.list[k],
                   SampleInstant(c.now, c.req.prediction_hours, n))
        /\ last.resp.status = 500

\* C8: an orbital prediction with prediction_hours <= 0 and a pass prediction
\* with days <= 0 are answered with an error, not with a result.
C8_InvalidRangeRejected ==
    LET c == last.call
    IN  /\ (c.op = "orbital" /\ Served(c) /\ c.req.prediction_hours <= 0)
            => last.resp.status # 200
        /\ (c.op = "passes" /\ Served(c) /\ c.req.days <= 0)
            => last.resp.status # 200

\* the sequence a response carries
ResultOf(r) ==
    IF r.status # 200 THEN <<>>
    ELSE IF "orbital_path" \in DOMAIN r THEN r.orbital_path ELSE r.passes

SameRequestTwice ==
    /\ last.call.op \in {"orbital", "passes"}
    /\ prev.call.op = last.call.op
    /\ prev.call.req = last.call.req
    /\ prev.call.catalog = last.call.catalog
    /\ prev.call.ts = last.call.ts

Refused(r) ==
    \/ r.status = 503
    \/ ("message" \in DOMAIN r /\ r.message = "Satellite data not loaded")

\* C10: a handler that computes positions either refuses the request or has
\* seen both the satellite list and the timescale of the completed load.
C10_ConsistentPair ==
    last.call.op \in {"list", "position", "orbital", "tracking"} =>
        \/ Refused(last.resp)
        \/ /\ Served(last.call)
           /\ pc = "done"
           /\ last.call.catalog = satellites
           /\ last.call.ts = ts

\* C10 witness: the list handler propagated a satellite after the load.
C10_Witness ==
    /\ last.call.op = "list"
    /\ ~Refused(last.resp)
    /\ \E i \in 1..Len(last.resp.satellites) :
           last.resp.satellites[i].status = "Active"

\* C11: for every id carried by an entry of the list response, a position
\* request for that id against the same catalog (here: at the same instant)
\* answers 200 with the name of that entry and with latitude, longitude,
\* altitude and velocity.
C11_ListedIdHasPosition ==
    LET c == last.call
        listed == ListSatellitesResp.satellites
    IN  (/\ c.op = "position"
         /\ c.catalog = satellites
         /\ c.ts = ts
         /\ c.now = now)
        => \A i \in 1..Len(listed) :
               listed[i].id = c.req.satellite_id
               => /\ last.resp.status = 200
                  /\ last.resp.name = listed[i].name
                  /\ {"latitude", "longitude", "altitude", "velocity"}
                         \subseteq DOMAIN last.resp

\* C12: a pass request whose satellite_name equals the name of a catalog
\* satellite ignoring letter case, with days >= 0, is answered 200 with a
\* 'passes' list of 4 * days records, and total_passes is its length.
C12_FourPassesPerDay ==
    LET c == last.call
    IN  (/\ c.op = "passes"
         /\ c.req.days >= 0
         /\ \E i \in 1..Len(c.catalog.list) :
                Lower(c.catalog.list[i].name) = Lower(c.req.satellite_name))
        => /\ last.resp.status = 200
           /\ "passes" \in DOMAIN last.resp
           /\ last.resp.total_passes = Len(last.resp.passes)
           /\ Len(last.resp.passes) = 4 * c.req.days

\* C12 witness: a request that names a catalog satellite in another letter
\* case was answered with its 4 * days passes.
C12_Witness ==
    LET c == last.call
    IN  /\ c.op = "passes"
        /\ c.req.days >= 1
        /\ \E i \in 1..Len(c.catalog.list) :
               /\ c.catalog.list[i].name # c.req.satellite_name
               /\ Lower(c.catalog.list[i].name) = Lower(c.req.satellite_name)
        /\ last.resp.status = 200
        /\ Len(last.resp.passes) = 4 * c.req.days

\* C13: in every catalog state (before the load, after a failed load, after a
\* successful load) the health check answers 200 'healthy' with
\* satellites_loaded equal to the number of satellites in the catalog, 0 when
\* there is none, and the dashboard's total_satellites_tracked for the same
\* catalog is the same number.
C13_HealthCountsCatalog ==
    LET c == last.call
    IN  /\ c.op = "health" =>
              /\ last.resp.status = 200
              /\ last.resp.health = "healthy"
              /\ last.resp.satellites_loaded = Len(c.catalog.list)
              /\ c.catalog = satellites =>
                     last.resp.satellites_loaded
                         = GetDashboardDataResp.total_satellites_tracked
        /\ c.op = "dashboard" =>
              /\ last.resp.status = 200
              /\ last.resp.total_satellites_tracked = Len(c.catalog.list)

\* C13 witness: the health check answered after a load of several satellites.
C13_Witness ==
    /\ last.call.op = "health"
    /\ last.call.catalog.kind = "list"
    /\ last.resp.satellites_loaded >= 2
    /\ last.resp.satellites_loaded = GetDashboardDataResp.total_satellites_tracked

\* C14: the imagery operation answers 200 with the location, date and
\* image_type of the request when the Sentinel Hub API key is configured, and
\* 503 'Sentinel Hub API key not configured' when it is not.
C14_ImageryNeedsKey ==
    LET c == last.call
    IN  c.op = "imagery" =>
            IF KeyConfigured
            THEN /\ last.resp.status = 200
                 /\ last.resp.location = c.req.location
                 /\ last.resp.image_type = c.req.image_type
                 /\ c.req.date # "None" =>
                        last.resp.date.isoformat = c.req.date
            ELSE /\ last.resp.status = 503
                 /\ last.resp.detail = "Sentinel Hub API key not configured"

\* C15: once startup has completed no step changes the catalog: every
\* handler leaves the global satellite list and the timescale as startup
\* published them.
C15_HandlersKeepCatalog ==
    [][pc = "done" => (satellites' = satellites /\ ts' = ts)]_vars

\* C15 witness: after startup the tracking handler answered, leaving a
\* satellite out of its response, and the catalog it read is the one in
\* place.
C15_Witness ==
    /\ pc = "done"
    /\ last.call.op = "tracking"
    /\ last.resp.status = 200
    /\ last.resp.count < Len(satellites.list)
    /\ last.call.catalog = satellites
    /\ last.call.ts = ts

\* C16: the instants of a ground track are evenly spaced and include both
\* ends: with span S = prediction_hours and n points, the i-th point
\* (i = 0..n-1) is at start + i * S / (n - 1).  Instants are in seconds.
C16_EvenlySpaced ==
    LET c == last.call
    IN  (c.op = "orbital" /\ last.resp.status = 200) =>
            LET path == last.resp.orbital_path
                n == Len(path)
            IN  \A i \in 0..(n - 1) :
                    (path[i + 1].time - UtcIso(c.now)) * (n - 1)
                        = i * c.req.prediction_hours * 3600

\* C16 witness: a ground track over a positive span whose first two points
\* are 72 s per requested hour apart.
C16_Witness ==
    /\ last.call.op = "orbital"
    /\ last.resp.status = 200
    /\ last.call.req.prediction_hours >= 1
    /\ last.resp.orbital_path[2].time - last.resp.orbital_path[1].time
           = 72 * last.call.req.prediction_hours

C18_FailsOnlyAtRequestedInstant ==
    LET c == last.call
        list == c.catalog.list
        k == FindById(list, c.req.satellite_id)
    IN  (/\ c.op = "position"
         /\ Served(c)
         /\ k # 0
         /\ ~PropagationError(list[k], c.now))
        => last.resp.status = 200

\* C19: satellites of the catalog that share a display name are listed with
\* the same id, and a position or orbital-prediction request for that id is
\* answered from the first of them in catalog order, never from a later one.
C19_FirstOfSameIdWins ==
    LET c == last.call
        list == c.catalog.list
    IN  /\ (c.op = "list" /\ Truthy(c.catalog)) =>
               \A i, j \in 1..Len(last.resp.satellites) :
                   list[i].name = list[j].name =>
                       last.resp.satellites[i].id = last.resp.satellites[j].id
        /\ (c.op = "position" /\ last.resp.status = 200) =>
               \E i \in 1..Len(list) :
                   /\ Hash(list[i].name) = c.req.satellite_id
                   /\ \A j \in 1..(i - 1) :
                          Hash(list[j].name) # c.req.satellite_id
                   /\ last.resp.name = list[i].name
                   /\ last.resp.altitude = Subpoint(list[i], c.now).elevation
                   /\ last.resp.latitude = Subpoint(list[i], c.now).latitude
                   /\ last.resp.inclination = list[i].inclination
        /\ (c.op = "orbital" /\ last.resp.status = 200) =>
               \E i \in 1..Len(list) :
                   /\ Hash(list[i].name) = c.req.satellite_id
                   /\ \A j \in 1..(i - 1) :
                          Hash(list[j].name) # c.req.satellite_id
                   /\ \A k \in 1..Len(last.resp.orbital_path) :
                          /\ last.resp.orbital_path[k].altitude = list[i].elevation
                          /\ last.resp.orbital_path[k].latitude = list[i].latitude

\* C19 witness: two distinct satellites of the catalog share the requested
\* id and the position returned is not the later one's.
C19_Witness ==
    LET c == last.call
        list == c.catalog.list
    IN  /\ c.op = "position"
        /\ last.resp.status = 200
        /\ \E i, j \in 1..Len(list) :
               /\ i < j
               /\ list[i].satnum # list[j].satnum
               /\ Hash(list[i].name) = c.req.satellite_id
               /\ Hash(list[j].name) = c.req.satellite_id
               /\ last.resp.altitude # Subpoint(list[j], c.now).elevation

\* C20: with a loaded, non-empty catalog, a position or orbital-prediction
\* request for an id that no satellite's name hashes to, and a passes
\* request for a name that matches no satellite ignoring case, are answered
\* with status 404.
C20_UnknownSatellite404 ==
    LET c == last.call
        list == c.catalog.list
    IN  Served(c) =>
            /\ (/\ c.op \in {"position", "orbital"}
                /\ \A i \in 1..Len(list) :
                       Hash(list[i].name) # c.req.satellite_id)
               => last.resp.status = 404
            /\ (/\ c.op = "passes"
                /\ \A i \in 1..Len(list) :
                       Lower(list[i].name) # Lower(c.req.satellite_name))
               => last.resp.status = 404

\* the state part of C21: startup ends with a timescale, a failed load leaves
\* the empty dict, and a request answered while the catalog is empty gets 503
\* 'Satellite data not available' from position, orbital prediction, passes
\* and real-time tracking, and 200 with an empty list from the list operation
C21_EmptyCatalogAnswers ==
    LET c == last.call
    IN  /\ pc = "done" => ts # "None"
        /\ pc = "failed" => satellites = EmptyDict
        /\ satellites.kind = "dict" => (satellites = EmptyDict /\ pc # "loaded")
        /\ (c.op \in {"position", "orbital", "passes", "tracking"}
                /\ ~Truthy(c.catalog))
           => last.resp = HttpError(503, "Satellite data not available")
        /\ (c.op = "list" /\ ~Truthy(c.catalog))
           => (last.resp.status = 200 /\ last.resp.satellites = <<>>)

\* C21: startup always completes with a timescale set, a failed catalog load
\* leaves the catalog empty, and whenever the catalog is empty position,
\* orbital prediction, passes and real-time tracking answer 503 'Satellite
\* data not available' while the list operation answers 200 with an empty
\* satellite list.
C21_StartupCompletesEmptyCatalogRefused ==
    /\ <>(pc = "done" /\ ts # "None")
    /\ []C21_EmptyCatalogAnswers

\* C21 witness: the catalog load failed, startup completed with a timescale
\* and a real-time tracking request was refused with 503.
C21_Witness ==
    /\ pc = "done"
    /\ ts # "None"
    /\ satellites = EmptyDict
    /\ last.call.op = "tracking"
    /\ last.call.catalog = EmptyDict
    /\ last.call.ts # "None"
    /\ last.resp.status = 503

\* C22: for a loaded catalog of N >= 1 satellites the list operation returns
\* exactly min(ListLimit, N) entries, entry i describing satellite i of the
\* catalog whether or not its propagation succeeded, and total_count = N.
C22_ListFirstTwenty ==
    LET c == last.call
        list == c.catalog.list
        N == Len(list)
    IN  (c.op = "list" /\ Truthy(c.catalog)) =>
            /\ last.resp.status = 200
            /\ Len(last.resp.satellites) = (IF N < 20 THEN N ELSE 20)
            /\ \A i \in 1..Len(last.resp.satellites) :
                   /\ last.resp.satellites[i].name = list[i].name
                   /\ last.resp.satellites[i].catalog_number = list[i].satnum
            /\ last.resp.total_count = N

\* C22 witness: a catalog of more than 20 satellites was listed, 20 entries
\* came back and one of them is the fallback entry of a failed propagation.
C22_Witness ==
    /\ last.call.op = "list"
    /\ Len(last.call.catalog.list) > 20
    /\ Len(last.resp.satellites) = 20
    /\ last.resp.total_count = Len(last.call.catalog.list)
    /\ \E i \in 1..Len(last.resp.satellites) :
           last.resp.satellites[i].status = "Unknown"

\* C23: in every pass record returned by the passes operation the reported
\* peak elevation (max_elevation) is at least the elevation reported for
\* the same pass (altitude).
C23_PeakAtLeastElevation ==
    (last.call.op = "passes" /\ last.resp.status = 200) =>
        \A i \in 1..Len(last.resp.passes) :
            last.resp.passes[i].max_elevation >= last.resp.passes[i].altitude

====
